---- MODULE Spec2Model ----
(***************************************************************************)
(* A model of reana-server's request authorization and workflow-dispatch   *)
(* pipeline: the user store and its administrative operations              *)
(* (reana_server/utils.py), the GitLab webhook resolution                  *)
(* (_get_reana_yaml_from_gitlab) and the create-analysis endpoint          *)
(* (reana_server/rest/analyses.py).                                        *)
(*                                                                         *)
(* Strings are sequences of one-character strings, so that prefixes,       *)
(* suffixes and the CSV quoting are computed and not assumed.              *)
(***************************************************************************)
EXTENDS Integers, Sequences, FiniteSets, TLC

VARIABLES db, inactive, pc, focEmail, last, an, wh, rt, idem

vars == <<db, inactive, pc, focEmail, last, an, wh, rt, idem>>

(***************************************************************************)
(* Bounds and value pools.                                                 *)
(***************************************************************************)
\* the most user records a store holds
MaxUsers == 3
\* the most rows an imported file holds
MaxRows == 2

\* the threads serving requests; reana_db's Session is a scoped (per-thread)
\* session
Threads == {1, 2}

QUOTE == "\""
COMMA == ","
NEWLINE == "\n"

\* reana_server.config.ADMIN_USER_ID
ADMIN_USER_ID == <<"0">>

IdPool == {<<"0">>, <<"1">>, <<"2">>, <<"3">>}
EmailPool == {<<"r">>, <<"x">>, <<"y", ",">>, <<"z">>}
TokenPool == {<<"a", "b">>, <<"a">>, <<"b">>, <<"\"">>}

\* None, and the empty string: both are false in a Python condition
None == <<>>

User(id, email, token) == [id_ |-> id, email |-> email, access_token |-> token]

\* the admin record every store that has one starts from
AdminUser == User(ADMIN_USER_ID, <<"r">>, <<"a", "b">>)

IsPrefix(p, s) == Len(p) <= Len(s) /\ SubSeq(s, 1, Len(p)) = p
IsSuffix(p, s) == Len(p) <= Len(s) /\ SubSeq(s, Len(s) - Len(p) + 1, Len(s)) = p

(***************************************************************************)
(* The user table of reana_db: id_, email and access_token are each unique.*)
(***************************************************************************)
\* a table whose access_token column is not unique
ClashOnIdOrEmail(u, v) ==
    \/ u.id_ = v.id_
    \/ u.email = v.email

Clash(u, v) ==
    \/ u.id_ = v.id_
    \/ u.email = v.email
    \/ u.access_token = v.access_token

\* a flush of the new rows, in order, into the store raises IntegrityError
IntegrityError(store, rows) ==
    \/ \E i \in 1..Len(rows) : \E u \in store : Clash(rows[i], u)
    \/ \E i \in 1..Len(rows) : \E j \in 1..Len(rows) : i < j /\ Clash(rows[i], rows[j])

Range(f) == {f[i] : i \in DOMAIN f}

\* secrets.token_urlsafe(16) and the uuid4 default of User.id_: 128 random
\* bits, modelled as a value no record of the store carries
FreshTokens(store) == TokenPool \ {u.access_token : u \in store}
FreshIds(store) == (IdPool \ {ADMIN_USER_ID}) \ {u.id_ : u \in store}

(***************************************************************************)
(* The CSV text of an export and its reading back by an import.            *)
(***************************************************************************)
RECURSIVE Escape(_)
\* csv.writer, dialect 'unix': doublequote, every quote character doubled
Escape(f) ==
    IF f = <<>> THEN <<>>
    ELSE (IF Head(f) = QUOTE THEN <<QUOTE, QUOTE>> ELSE <<Head(f)>>) \o Escape(Tail(f))

\* dialect 'unix' is QUOTE_ALL: every field is written between quotes
QuoteField(f) == <<QUOTE>> \o Escape(f) \o <<QUOTE>>

\* csv_writer.writerow([user.id_, user.email, user.access_token]), the
\* line terminator of dialect 'unix' being "\n"
writerow(u) ==
    QuoteField(u.id_) \o <<COMMA>> \o QuoteField(u.email) \o <<COMMA>>
        \o QuoteField(u.access_token) \o <<NEWLINE>>

RECURSIVE WriteAll(_)
\* the text left in csv_file_obj after one writerow per user, in order
WriteAll(users) ==
    IF users = <<>> THEN <<>> ELSE writerow(Head(users)) \o WriteAll(Tail(users))

RECURSIVE csv_reader(_, _, _, _, _)
\* csv.reader(users_csv_file): the default (excel) dialect's state machine
\* over the text, giving the sequence of rows, each a sequence of fields
csv_reader(text, state, fld, row, rows) ==
    IF text = <<>>
    THEN IF state = "START_RECORD" THEN rows ELSE Append(rows, Append(row, fld))
    ELSE LET c == Head(text)
             rest == Tail(text)
         IN CASE state \in {"START_RECORD", "START_FIELD"} ->
                  IF c = NEWLINE
                  THEN csv_reader(rest, "START_RECORD", <<>>, <<>>,
                                  Append(rows, IF state = "START_RECORD" THEN <<>>
                                               ELSE Append(row, <<>>)))
                  ELSE IF c = QUOTE
                  THEN csv_reader(rest, "IN_QUOTED_FIELD", <<>>, row, rows)
                  ELSE IF c = COMMA
                  THEN csv_reader(rest, "START_FIELD", <<>>, Append(row, <<>>), rows)
                  ELSE csv_reader(rest, "IN_FIELD", <<c>>, row, rows)
              [] state = "IN_FIELD" ->
                  IF c = NEWLINE
                  THEN csv_reader(rest, "START_RECORD", <<>>, <<>>,
                                  Append(rows, Append(row, fld)))
                  ELSE IF c = COMMA
                  THEN csv_reader(rest, "START_FIELD", <<>>, Append(row, fld), rows)
                  ELSE csv_reader(rest, "IN_FIELD", Append(fld, c), row, rows)
              [] state = "IN_QUOTED_FIELD" ->
                  IF c = QUOTE
                  THEN csv_reader(rest, "QUOTE_IN_QUOTED_FIELD", fld, row, rows)
                  ELSE csv_reader(rest, "IN_QUOTED_FIELD", Append(fld, c), row, rows)
              [] OTHER ->
                  \* QUOTE_IN_QUOTED_FIELD
                  IF c = QUOTE
                  THEN csv_reader(rest, "IN_QUOTED_FIELD", Append(fld, QUOTE), row, rows)
                  ELSE IF c = COMMA
                  THEN csv_reader(rest, "START_FIELD", <<>>, Append(row, fld), rows)
                  ELSE IF c = NEWLINE
                  THEN csv_reader(rest, "START_RECORD", <<>>, <<>>,
                                  Append(rows, Append(row, fld)))
                  ELSE csv_reader(rest, "IN_FIELD", Append(fld, c), row, rows)

\* User(id_=row[0], email=row[1], access_token=row[2]) for each row read
RowUsers(text) ==
    LET rows == csv_reader(text, "START_RECORD", <<>>, <<>>, <<>>)
    IN [i \in 1..Len(rows) |-> User(rows[i][1], rows[i][2], rows[i][3])]

(***************************************************************************)
(* The operations of utils.py, each a function of the committed store, of  *)
(* the calling thread's session (inactive: a flush failed in it and no     *)
(* rollback followed, so every further use of it raises                    *)
(* InvalidRequestError) and of the arguments.  Each gives the store and    *)
(* the session afterwards, the outcome (ok or the exception raised) and    *)
(* the value returned.                                                     *)
(***************************************************************************)
OK == "ok"
TOKEN_NOT_VALID == "ValueError: Token not valid."
ADMIN_TOKEN_INVALID == "ValueError: Admin access token invalid."
CONSTRAINT_VIOLATION == "ValueError: Could not create user, possible constraint violation"

Res(store, ia, out, ret) == [db |-> store, inactive |-> ia, out |-> out, ret |-> ret]

\* a comparison that accepts a prefix of the stored token
TokenDiffersUnlessPrefix(candidate, stored) == ~IsPrefix(candidate, stored)

\* admin_access_token != admin.access_token
TokenDiffers(candidate, stored) == candidate # stored

\* the access token of the admin record, if the store has one
StoredAdminTokens(store) == {u.access_token : u \in {v \in store : v.id_ = ADMIN_USER_ID}}

\* admin = ...filter_by(id_=ADMIN_USER_ID).one_or_none()
\* if admin_access_token != admin.access_token: raise ValueError(...)
AdminCheck(store, admin_access_token) ==
    LET admin == {u \in store : u.id_ = ADMIN_USER_ID}
    IN IF admin = {} THEN "AttributeError"
       ELSE IF \E a \in admin : TokenDiffers(admin_access_token, a.access_token)
       THEN ADMIN_TOKEN_INVALID
       ELSE "pass"

\* a lookup that matches a token by its first character
get_user_by_first_char(store, ia, access_token) ==
    IF ia THEN Res(store, ia, "InvalidRequestError", {})
    ELSE LET user == {u \in store : access_token # <<>>
                                     /\ Head(u.access_token) = Head(access_token)}
         IN IF user = {} THEN Res(store, ia, TOKEN_NOT_VALID, {})
            ELSE Res(store, ia, OK, {CHOOSE u \in user : TRUE})

get_user_from_token(store, ia, access_token) ==
    IF ia THEN Res(store, ia, "InvalidRequestError", {})
    ELSE LET user == {u \in store : u.access_token = access_token}
         IN IF user = {} THEN Res(store, ia, TOKEN_NOT_VALID, {})
            ELSE IF Cardinality(user) > 1 THEN Res(store, ia, "MultipleResultsFound", {})
            ELSE Res(store, ia, OK, user)

get_users(store, ia, id, email, user_access_token, admin_access_token) ==
    IF ia THEN Res(store, ia, "InvalidRequestError", {})
    ELSE LET check == AdminCheck(store, admin_access_token)
         IN IF check # "pass" THEN Res(store, ia, check, {})
            ELSE Res(store, ia, OK,
                     {u \in store :
                         /\ id # None => u.id_ = id
                         /\ email # None => u.email = email
                         /\ user_access_token # None => u.access_token = user_access_token})

\* a token is generated whether or not one was supplied
create_user_always_generates(store, ia, email, user_access_token, admin_access_token, id, token) ==
    IF ia THEN Res(store, FALSE, CONSTRAINT_VIOLATION, {})
    ELSE LET check == AdminCheck(store, admin_access_token)
             user == User(id, email, token)
         IN IF check # "pass" THEN Res(store, ia, check, {})
            ELSE IF IntegrityError(store, <<user>>)
            THEN Res(store, FALSE, CONSTRAINT_VIOLATION, {})
            ELSE Res(store \cup {user}, ia, OK, {user})

\* id and token are what uuid4 and secrets.token_urlsafe(16) give in this call
create_user(store, ia, email, user_access_token, admin_access_token, id, token) ==
    IF ia THEN Res(store, FALSE, CONSTRAINT_VIOLATION, {})
    ELSE LET check == AdminCheck(store, admin_access_token)
             user == User(id, email,
                          IF user_access_token = None THEN token ELSE user_access_token)
         IN IF check # "pass" THEN Res(store, ia, check, {})
            ELSE IF IntegrityError(store, <<user>>)
            THEN Res(store, FALSE, CONSTRAINT_VIOLATION, {})
            ELSE Res(store \cup {user}, ia, OK, {user})

\* order: the order in which User.query.all() gives the users
export_users(store, ia, admin_access_token, order) ==
    IF ia THEN Res(store, ia, "InvalidRequestError", <<>>)
    ELSE LET check == AdminCheck(store, admin_access_token)
         IN IF check # "pass" THEN Res(store, ia, check, <<>>)
            ELSE Res(store, ia, OK, WriteAll(order))

RECURSIVE CommitEach(_, _)
\* a commit after every row: the rows before the offending one are kept
CommitEach(store, rows) ==
    IF rows = <<>> THEN Res(store, FALSE, OK, {})
    ELSE IF IntegrityError(store, <<Head(rows)>>)
    THEN Res(store, TRUE, "IntegrityError", {})
    ELSE CommitEach(store \cup {Head(rows)}, Tail(rows))

\* Session.merge in place of Session.add: a row replaces the record of
\* the store that has its id
ImportMerge(store, rows) ==
    LET kept == {u \in store : ~\E i \in DOMAIN rows : rows[i].id_ = u.id_}
    IN IF IntegrityError(kept, rows)
       THEN Res(store, TRUE, "IntegrityError", {})
       ELSE Res(kept \cup Range(rows), FALSE, OK, {})

\* Session.commit() of the rows added, then Session.remove()
ImportCommit(store, rows) ==
    IF IntegrityError(store, rows)
    THEN Res(store, TRUE, "IntegrityError", {})
    ELSE Res(store \cup Range(rows), FALSE, OK, {})

import_users(store, ia, admin_access_token, users_csv_file) ==
    IF ia THEN Res(store, ia, "InvalidRequestError", {})
    ELSE LET check == AdminCheck(store, admin_access_token)
         IN IF check # "pass" THEN Res(store, ia, check, {})
            ELSE ImportCommit(store, RowUsers(users_csv_file))

\* _create_and_associate_reana_user up to "if users:"; ABSENT: the else
\* branch is taken and the call goes on to add and commit
ABSENT == "absent"

\* a lookup that never finds the user
foc_lookup_never_found(store, ia, user_email) ==
    IF ia THEN Res(store, FALSE, CONSTRAINT_VIOLATION, {})
    ELSE Res(store, ia, ABSENT, {})

foc_lookup(store, ia, user_email) ==
    IF ia THEN Res(store, FALSE, CONSTRAINT_VIOLATION, {})
    ELSE LET users == {u \in store : u.email = user_email}
         IN IF users # {} THEN Res(store, ia, OK, {CHOOSE u \in users : TRUE})
            ELSE Res(store, ia, ABSENT, {})

\* the new user built without its email
foc_commit_no_email(store, user_email, id, token) ==
    LET user == User(id, None, token)
    IN IF IntegrityError(store, <<user>>)
       THEN Res(store, FALSE, CONSTRAINT_VIOLATION, {})
       ELSE Res(store \cup {user}, FALSE, OK, {user})

\* the else branch: Session.add(user); Session.commit(), rolled back on
\* IntegrityError
foc_commit(store, user_email, id, token) ==
    LET user == User(id, user_email, token)
    IN IF IntegrityError(store, <<user>>)
       THEN Res(store, FALSE, CONSTRAINT_VIOLATION, {})
       ELSE Res(store \cup {user}, FALSE, OK, {user})

(***************************************************************************)
(* The running system: requests served by the threads against one store.   *)
(* last is the record of the call that has just ended (its arguments, its  *)
(* outcome, what it returned and the store before it), which the caller    *)
(* takes (Ack) before the next call is served.                             *)
(***************************************************************************)
NoCall == [op |-> "none", t |-> 0, tok |-> None, email |-> None, utok |-> None,
           info |-> "", out |-> "", ret |-> {}, pre |-> {}]

AnIdle == [pc |-> "idle"]
WhIdle == [pc |-> "idle"]
RtIdle == [pc |-> "idle"]
IdemIdle == [pc |-> "idle"]

\* the tokens a caller presents as the admin token: the admin's own, a
\* proper prefix of it, a proper suffix of it, another user's, and none
AdminCandidates == {<<"a", "b">>, <<"a">>, <<"b">>, None}

\* the rows a file to import is made of
ImportRows ==
    {User(<<"1">>, <<"x">>, <<"a">>), User(<<"2">>, <<"y", ",">>, <<"\"">>),
     User(<<"2">>, <<"x">>, <<"b">>), User(<<"3">>, <<"z">>, <<"a">>), AdminUser}

RowSeqs == UNION {[1..n -> ImportRows] : n \in 0..MaxRows}

RECURSIVE Orders(_)
\* the orders in which a query may give the records of a set
Orders(S) ==
    IF S = {} THEN {<<>>}
    ELSE UNION {{<<u>> \o o : o \in Orders(S \ {u})} : u \in S}

\* what is wrong with the rows of an import, for the record of the call
Offence(store, rows) ==
    IF ~IntegrityError(store, rows) THEN "none"
    ELSE IF \E i \in 1..Len(rows) : \E u \in store : Clash(rows[i], u)
    THEN (IF Len(rows) > 1 /\ ~\E u \in store : Clash(rows[1], u)
          THEN "later row clashes with the store" ELSE "row clashes with the store")
    ELSE "rows clash with each other"

Ready(t) == pc[t] = "idle" /\ last = NoCall

Complete(t, op, tok, email, utok, info, r) ==
    /\ Cardinality(r.db) <= MaxUsers
    /\ db' = r.db
    /\ inactive' = [inactive EXCEPT ![t] = r.inactive]
    /\ last' = [op |-> op, t |-> t, tok |-> tok, email |-> email, utok |-> utok,
                info |-> info, out |-> r.out, ret |-> r.ret, pre |-> db]

Resolve(t) ==
    /\ Ready(t)
    /\ \E tok \in TokenPool \cup {None} :
           Complete(t, "resolve", tok, None, None, "",
                    get_user_from_token(db, inactive[t], tok))
    /\ UNCHANGED <<pc, focEmail, an, wh, rt, idem>>

List(t) ==
    /\ Ready(t)
    /\ \E id \in {None, <<"1">>} : \E email \in {None, <<"x">>} :
       \E utok \in {None, <<"a">>} : \E atok \in AdminCandidates :
           Complete(t, "list", atok, None, None, "",
                    get_users(db, inactive[t], id, email, utok, atok))
    /\ UNCHANGED <<pc, focEmail, an, wh, rt, idem>>

Create(t) ==
    /\ Ready(t)
    /\ \E email \in EmailPool : \E utok \in TokenPool \cup {None} :
       \E atok \in AdminCandidates :
       \E id \in FreshIds(db) : \E token \in FreshTokens(db) :
           Complete(t, "create", atok, email, utok,
                    IF inactive[t] THEN "session inactive"
                    ELSE IF utok = None THEN "generated" ELSE "given",
                    create_user(db, inactive[t], email, utok, atok, id, token))
    /\ UNCHANGED <<pc, focEmail, an, wh, rt, idem>>

Export(t) ==
    /\ Ready(t)
    /\ \E atok \in AdminCandidates : \E order \in Orders(db) :
           Complete(t, "export", atok, None, None, "",
                    export_users(db, inactive[t], atok, order))
    /\ UNCHANGED <<pc, focEmail, an, wh, rt, idem>>

Import(t) ==
    /\ Ready(t)
    /\ \E atok \in AdminCandidates : \E rows \in RowSeqs :
           Complete(t, "import", atok, None, None, Offence(db, rows),
                    import_users(db, inactive[t], atok, WriteAll(rows)))
    /\ UNCHANGED <<pc, focEmail, an, wh, rt, idem>>

\* the call up to the query by email: it ends here when a user is found or
\* the session refuses the query, and goes on to add and commit otherwise
FocLookup(t) ==
    /\ Ready(t)
    /\ \E email \in EmailPool \ {<<"r">>} :
           LET r == foc_lookup(db, inactive[t], email)
           IN IF r.out = ABSENT
              THEN /\ pc' = [pc EXCEPT ![t] = "foc"]
                   /\ focEmail' = [focEmail EXCEPT ![t] = email]
                   /\ UNCHANGED <<db, inactive, last>>
              ELSE /\ Complete(t, "foc", None, email, None,
                               IF inactive[t] THEN "session inactive" ELSE "found", r)
                   /\ UNCHANGED <<pc, focEmail>>
    /\ UNCHANGED <<an, wh, rt, idem>>

FocCommit(t) ==
    /\ pc[t] = "foc"
    /\ last = NoCall
    /\ \E id \in FreshIds(db) : \E token \in FreshTokens(db) :
           Complete(t, "foc", None, focEmail[t], None, "absent",
                    foc_commit(db, focEmail[t], id, token))
    /\ pc' = [pc EXCEPT ![t] = "idle"]
    /\ focEmail' = [focEmail EXCEPT ![t] = None]
    /\ UNCHANGED <<an, wh, rt, idem>>

Ack ==
    /\ last # NoCall
    /\ last' = NoCall
    /\ UNCHANGED <<db, inactive, pc, focEmail, an, wh, rt, idem>>

Init ==
    /\ db \in {{}, {AdminUser}}
    /\ inactive = [t \in Threads |-> FALSE]
    /\ pc = [t \in Threads |-> "idle"]
    /\ focEmail = [t \in Threads |-> None]
    /\ last = NoCall
    /\ an = AnIdle
    /\ wh = WhIdle
    /\ rt = RtIdle
    /\ idem = IdemIdle

Next ==
    \/ \E t \in Threads : Resolve(t)
    \/ \E t \in Threads : List(t)
    \/ \E t \in Threads : Create(t)
    \/ \E t \in Threads : Export(t)
    \/ \E t \in Threads : Import(t)
    \/ \E t \in Threads : FocLookup(t)
    \/ \E t \in Threads : FocCommit(t)
    \/ Ack

Spec == Init /\ [][Next]_vars

(***************************************************************************)
(* Two successive calls of _create_and_associate_reana_user by one caller, *)
(* from every store the table allows.                                      *)
(***************************************************************************)
UserPool == {User(i, e, k) : i \in IdPool, e \in EmailPool, k \in TokenPool}

RECURSIVE StoresUpTo(_)
\* the stores of at most n records that satisfy the table's constraints
StoresUpTo(n) ==
    IF n = 0 THEN {{}}
    ELSE LET smaller == StoresUpTo(n - 1)
         IN smaller \cup
            UNION {{S \cup {u} : u \in {v \in UserPool : \A w \in S : ~Clash(v, w)}} :
                   S \in smaller}

NoRes == Res({}, FALSE, "", {})

InitElse ==
    /\ inactive = [t \in Threads |-> FALSE]
    /\ pc = [t \in Threads |-> "idle"]
    /\ focEmail = [t \in Threads |-> None]
    /\ last = NoCall

\* one whole call on thread 1, nothing running beside it
IdemCall(n) ==
    /\ idem.pc = n
    /\ LET l == foc_lookup(db, inactive[1], idem.email)
           End(r) ==
               /\ db' = r.db
               /\ inactive' = [inactive EXCEPT ![1] = r.inactive]
               /\ idem' = IF n = "call1"
                          THEN [idem EXCEPT !.pc = "call2", !.r1 = r, !.db1 = r.db]
                          ELSE [idem EXCEPT !.pc = "done", !.r2 = r]
       IN IF l.out # ABSENT THEN End(l)
          ELSE \E id \in FreshIds(db) : \E token \in FreshTokens(db) :
                   End(foc_commit(db, idem.email, id, token))
    /\ UNCHANGED <<pc, focEmail, last, an, wh, rt>>

InitIdem ==
    /\ db \in StoresUpTo(MaxUsers)
    /\ \E e \in EmailPool :
           idem = [pc |-> "call1", email |-> e, db0 |-> db, r1 |-> NoRes,
                   db1 |-> {}, r2 |-> NoRes]
    /\ InitElse
    /\ an = AnIdle
    /\ wh = WhIdle
    /\ rt = RtIdle

NextIdem ==
    \/ IdemCall("call1")
    \/ IdemCall("call2")

SpecIdem == InitIdem /\ [][NextIdem]_vars

(***************************************************************************)
(* An export of a store read back by an import into another store.         *)
(***************************************************************************)
\* _export_users with the admin's own token; the file is then taken to a
\* store that is empty, or that holds the admin record alone
RtExport ==
    /\ rt.pc = "export"
    /\ \E order \in Orders(db) : \E k \in StoredAdminTokens(db) :
       \E target \in {"empty", "admin only"} :
           LET r == export_users(db, inactive[1], k, order)
           IN /\ rt' = [pc |-> "import", src |-> db, tok |-> k, text |-> r.ret,
                        target |-> target, out |-> r.out]
              /\ db' = IF target = "empty" THEN {}
                       ELSE {u \in db : u.id_ = ADMIN_USER_ID}
    /\ UNCHANGED <<inactive, pc, focEmail, last, an, wh, idem>>

\* _import_users of the exported file, with the same token
RtImport ==
    /\ rt.pc = "import"
    /\ LET r == import_users(db, inactive[1], rt.tok, rt.text)
       IN /\ db' = r.db
          /\ inactive' = [inactive EXCEPT ![1] = r.inactive]
          /\ rt' = [rt EXCEPT !.pc = "done", !.out = r.out]
    /\ UNCHANGED <<pc, focEmail, last, an, wh, idem>>

InitRoundTrip ==
    /\ db \in {S \in StoresUpTo(MaxUsers) : \E u \in S : u.id_ = ADMIN_USER_ID}
    /\ rt = [pc |-> "export", src |-> {}, tok |-> None, text |-> <<>>,
             target |-> "", out |-> ""]
    /\ InitElse
    /\ an = AnIdle
    /\ wh = WhIdle
    /\ idem = IdemIdle

NextRoundTrip ==
    \/ RtExport
    \/ RtImport

SpecRoundTrip == InitRoundTrip /\ [][NextRoundTrip]_vars

(***************************************************************************)
(* create_analysis (rest/analyses.py): one POST /analyses request, from    *)
(* its arguments to its response.  an.sent is the sequence of calls made   *)
(* to the workflow controller's create_yadage_workflow.                    *)
(***************************************************************************)
\* a field the document lacks; a local variable not yet assigned
Absent == <<"absent">>
Unbound == [unbound |-> TRUE]

YadageFields == <<"toplevel", "workflow", "nparallel", "preset_pars">>
DocFields == Range(YadageFields) \cup {"inputs"}

\* the values a field of the uploaded document may have
ValuesOf(f) == IF f = "toplevel" THEN {<<f, "v1">>, <<f, "v2">>} ELSE {<<f, "v1">>}

\* the uploaded documents: each field absent or present with a value
Docs ==
    {d \in [DocFields -> {Absent} \cup UNION {ValuesOf(f) : f \in DocFields}] :
        \A f \in DocFields : d[f] = Absent \/ d[f] \in ValuesOf(f)}

\* what the workflow controller does with a call, and str(e) of the
\* exception the client raises for it
DownstreamOutcomes == {"ok", "application error", "transport error"}
DownMessage(down) ==
    IF down = "application error" THEN "HTTPInternalServerError: workflow could not be created"
    ELSE "ConnectionError: reana-workflow-controller unreachable"
Launched == [message |-> "Analysis successfully launched", workflow_id |-> "w1"]

\* return jsonify({"message": str(e)}), status
Fail(a, status, message) ==
    [a EXCEPT !.pc = "done", !.status = status, !.body = [message |-> message]]

\* the engine taken as given, without the check
CheckEngineSkipped(a) == [a EXCEPT !.pc = "read"]

\* if workflow_engine not in app.config['AVAILABLE_WORKFLOW_ENGINES']:
\*     raise Exception('Unknown workflow engine')
CheckEngine(a) ==
    IF a.engine \notin a.allow
    THEN Fail(a, 500, "Unknown workflow engine")
    ELSE [a EXCEPT !.pc = "read"]

\* request.files['analysis_payload'].stream.read(), then json.loads
ReadPayload(a) ==
    IF ~a.hasFile THEN Fail(a, 400, "analysis_payload")
    ELSE IF a.json = "invalid" THEN Fail(a, 500, "JSONDecodeError")
    ELSE [a EXCEPT !.pc = "adapt"]

\* the whole uploaded document forwarded as the payload
AdaptForwardAll(a) ==
    IF a.engine # "yadage" THEN [a EXCEPT !.pc = "respond"]
    ELSE LET missing == {i \in DOMAIN YadageFields : a.doc[YadageFields[i]] = Absent}
         IN IF missing # {}
            THEN Fail(a, 400, YadageFields[CHOOSE i \in missing : \A j \in missing : i <= j])
            ELSE [a EXCEPT !.pc = "dispatch", !.payload = a.doc]

\* the fields read with a default (analysis_payload.get(field)): a document
\* lacking a field is forwarded all the same
AdaptLenient(a) ==
    IF a.engine # "yadage" THEN [a EXCEPT !.pc = "respond"]
    ELSE [a EXCEPT !.pc = "dispatch",
                   !.payload = [f \in Range(YadageFields) |-> a.doc[f]]]

\* the yadage_payload dictionary, built field by field from the document
Adapt(a) ==
    IF a.engine # "yadage" THEN [a EXCEPT !.pc = "respond"]
    ELSE LET missing == {i \in DOMAIN YadageFields : a.doc[YadageFields[i]] = Absent}
         IN IF missing # {}
            THEN Fail(a, 400, YadageFields[CHOOSE i \in missing : \A j \in missing : i <= j])
            ELSE [a EXCEPT !.pc = "dispatch",
                           !.payload = [f \in Range(YadageFields) |-> a.doc[f]]]

\* a handler that calls the controller again after a failed call
OnDownstreamErrorRetry(a, message) ==
    IF Len(a.sent) < 3 THEN [a EXCEPT !.pc = "dispatch"] ELSE Fail(a, 500, message)

\* except Exception as e: return jsonify({"message": str(e)}), 500
OnDownstreamError(a, message) == Fail(a, 500, message)

\* rwc_api_client.api.create_yadage_workflow(...).result()
Dispatch(a) ==
    LET b == [a EXCEPT !.sent = Append(@, [yadage_payload |-> a.payload,
                                           organization |-> a.organization,
                                           user |-> a.user])]
    IN IF a.down = "ok" THEN [b EXCEPT !.pc = "respond", !.res = Launched]
       ELSE OnDownstreamError(b, DownMessage(a.down))

\* return jsonify(res), 200
Respond(a) ==
    IF a.res = Unbound
    THEN Fail(a, 500, "UnboundLocalError: local variable 'res' referenced before assignment")
    ELSE [a EXCEPT !.pc = "done", !.status = 200, !.body = a.res]

AnStep(at, step) ==
    /\ an.pc = at
    /\ an' = step
    /\ UNCHANGED <<db, inactive, pc, focEmail, last, wh, rt, idem>>

AnCheckEngine == AnStep("check", CheckEngine(an))
AnReadPayload == AnStep("read", ReadPayload(an))
AnAdapt == AnStep("adapt", Adapt(an))
AnDispatch == AnStep("dispatch", Dispatch(an))
AnRespond == AnStep("respond", Respond(an))

InitAnalysis ==
    /\ \E allow \in {{"yadage", "cwl", "serial"}, {"cwl", "serial"}} :
       \E engine \in {"yadage", "cwl", "not-a-real-engine", ""} :
       \E organization \in {"default", "atlas"} :
       \E user \in {"u1", "u2"} : \E hasFile \in BOOLEAN :
       \E json \in {"object", "invalid"} : \E doc \in Docs :
       \E down \in DownstreamOutcomes :
           an = [pc |-> "check", allow |-> allow, engine |-> engine,
                 organization |-> organization, user |-> user, hasFile |-> hasFile,
                 json |-> json, doc |-> doc, down |-> down, payload |-> Unbound,
                 res |-> Unbound, sent |-> <<>>, status |-> 0, body |-> Unbound]
    /\ db = {AdminUser}
    /\ InitElse
    /\ wh = WhIdle
    /\ rt = RtIdle
    /\ idem = IdemIdle

NextAnalysis ==
    \/ AnCheckEngine
    \/ AnReadPayload
    \/ AnAdapt
    \/ AnDispatch
    \/ AnRespond

SpecAnalysis == InitAnalysis /\ [][NextAnalysis]_vars

(***************************************************************************)
(* _get_reana_yaml_from_gitlab(webhook_data, user_id): one call, from the  *)
(* webhook event to the tuple returned.  wh.reads is the set of secrets    *)
(* read, by owner and name; wh.fetched the sequence of requests made to    *)
(* GitLab's raw-file API.                                                  *)
(***************************************************************************)
Owners == {"u1", "u2"}
NoSecret == "no secret"
NoRet == [returned |-> FALSE]

\* the secrets each owner may have stored: none, or a token of their own
Vaults == [Owners -> {NoSecret, "glpat-u1", "glpat-u2"}]

\* a merge request resolved to the project's default branch and to the
\* event's checkout_sha, as a push is
ResolveContextAsPush(w) ==
    IF w.object_kind \in {"push", "merge_request"}
    THEN [w EXCEPT !.pc = "secret", !.branch = w.default_branch,
                   !.commit_sha = w.checkout_sha]
    ELSE [w EXCEPT !.pc = "secret"]

\* the if / elif on webhook_data['object_kind']: any other kind leaves
\* branch and commit_sha unassigned
ResolveContext(w) ==
    IF w.object_kind = "push"
    THEN [w EXCEPT !.pc = "secret", !.branch = w.default_branch,
                   !.commit_sha = w.checkout_sha]
    ELSE IF w.object_kind = "merge_request"
    THEN [w EXCEPT !.pc = "secret", !.branch = w.source_branch,
                   !.commit_sha = w.last_commit_id]
    ELSE [w EXCEPT !.pc = "secret"]

WhFail(w, error) == [w EXCEPT !.pc = "done", !.out = error]

\* the secrets store opened for one fixed owner, whoever the user is
ReadSecretOfFixedOwner(w) ==
    LET r == [w EXCEPT !.reads = @ \cup {<<"u1", "gitlab_access_token">>}]
    IN IF w.vault["u1"] = NoSecret
       THEN WhFail(r, "REANASecretDoesNotExist")
       ELSE [r EXCEPT !.pc = "fetch", !.gitlab_token = w.vault["u1"]]

\* REANAUserSecretsStore(str(user_id)).get_secret_value('gitlab_access_token')
ReadSecret(w) ==
    LET r == [w EXCEPT !.reads = @ \cup {<<w.user_id, "gitlab_access_token">>}]
    IN IF w.vault[w.user_id] = NoSecret
       THEN WhFail(r, "REANASecretDoesNotExist")
       ELSE [r EXCEPT !.pc = "fetch", !.gitlab_token = w.vault[w.user_id]]

\* requests.get(gitlab_api.format(project_id, reana_yaml, branch, gitlab_token))
FetchYaml(w) ==
    IF w.branch = "unbound"
    THEN WhFail(w, "UnboundLocalError: local variable 'branch' referenced before assignment")
    ELSE LET f == [w EXCEPT !.fetched = Append(@, [project_id |-> w.project_id,
                                                  file |-> "reana.yaml",
                                                  ref |-> w.branch,
                                                  access_token |-> w.gitlab_token])]
         IN IF w.http = "connection error" THEN WhFail(f, "ConnectionError")
            ELSE [f EXCEPT !.pc = "parse"]

\* return yaml.load(yaml_file.content), path_with_namespace, branch, commit_sha
\* the body of the response is parsed whatever its status
ParseYaml(w) ==
    IF w.content = "not yaml" THEN WhFail(w, "YAMLError")
    ELSE [w EXCEPT !.pc = "done", !.out = OK,
                   !.ret = [returned |-> TRUE,
                            spec |-> IF w.http = "200" THEN "reana.yaml of the commit"
                                     ELSE "body of the error response",
                            path |-> w.path_with_namespace,
                            branch |-> w.branch,
                            commit_sha |-> w.commit_sha]]

WhStep(at, step) ==
    /\ wh.pc = at
    /\ wh' = step
    /\ UNCHANGED <<db, inactive, pc, focEmail, last, an, rt, idem>>

WhResolveContext == WhStep("context", ResolveContext(wh))
WhReadSecret == WhStep("secret", ReadSecret(wh))
WhFetchYaml == WhStep("fetch", FetchYaml(wh))
WhParseYaml == WhStep("parse", ParseYaml(wh))

InitWebhook ==
    /\ \E kind \in {"push", "merge_request", "tag_push", "note"} :
       \E default_branch \in {"master", "main"} :
       \E source_branch \in {"feature", "master"} :
       \E checkout_sha \in {"c1", "c2"} : \E last_commit_id \in {"c2", "c3"} :
       \E path \in {"group/analysis", "jdoe/fork"} :
       \E user_id \in Owners : \E vault \in Vaults :
       \E http \in {"200", "404", "connection error"} :
       \E content \in {"yaml", "not yaml"} :
           wh = [pc |-> "context", object_kind |-> kind,
                 default_branch |-> default_branch, source_branch |-> source_branch,
                 checkout_sha |-> checkout_sha, last_commit_id |-> last_commit_id,
                 path_with_namespace |-> path, project_id |-> "7",
                 user_id |-> user_id, vault |-> vault, http |-> http,
                 content |-> content, branch |-> "unbound", commit_sha |-> "unbound",
                 gitlab_token |-> "unbound", reads |-> {}, fetched |-> <<>>,
                 out |-> "", ret |-> NoRet]
    /\ db = {AdminUser}
    /\ InitElse
    /\ an = AnIdle
    /\ rt = RtIdle
    /\ idem = IdemIdle

NextWebhook ==
    \/ WhResolveContext
    \/ WhReadSecret
    \/ WhFetchYaml
    \/ WhParseYaml

SpecWebhook == InitWebhook /\ [][NextWebhook]_vars

(***************************************************************************)
(* Properties of the user store operations.                                *)
(***************************************************************************)
AdminOps == {"list", "create", "export", "import"}

\* the call was refused by an inactive session before it read the store
SessionRefused(l) == l.out = "InvalidRequestError" \/ l.info = "session inactive"

\* the call went past the admin check
PassedAdminCheck(l) ==
    ~SessionRefused(l) /\ l.out \in {OK, "IntegrityError", CONSTRAINT_VIOLATION}

NoData(l) == IF l.op = "export" THEN l.ret = <<>> ELSE l.ret = {}

\* C1: in list, create, export and import, for every token supplied as the
\* admin token: a call that reaches the admin check passes it exactly when
\* the token equals the access token of the record whose id is
\* ADMIN_USER_ID; with any other token (a proper prefix or suffix of it
\* included) the call fails, returns no user data and leaves the store as
\* it was.
C1_AdminCheckExact ==
    last.op \in AdminOps =>
        /\ ~SessionRefused(last) =>
               (PassedAdminCheck(last) <=> last.tok \in StoredAdminTokens(last.pre))
        /\ last.tok \notin StoredAdminTokens(last.pre) =>
               /\ last.out # OK
               /\ NoData(last)
               /\ db = last.pre

\* an import presenting a proper prefix of the admin's token was refused
C1_Witness ==
    /\ last.op = "import"
    /\ \E k \in StoredAdminTokens(last.pre) : IsPrefix(last.tok, k) /\ last.tok # k
    /\ last.tok # None
    /\ last.out = ADMIN_TOKEN_INVALID
    /\ db = last.pre

\* C4: an import one of whose rows violates a uniqueness constraint (it
\* clashes with a record of the store, or with another row of the file)
\* fails, and the store afterwards is the store before the call: no row of
\* the file is kept, the rows before the offending one included.
C4_ImportAllOrNothing ==
    (last.op = "import" /\ last.info # "none") =>
        /\ last.out # OK
        /\ db = last.pre

\* an import with the admin's token whose first row is acceptable and whose
\* later row clashes with the store has failed
C4_Witness ==
    /\ last.op = "import"
    /\ last.info = "later row clashes with the store"
    /\ last.out = "IntegrityError"
    /\ db = last.pre

UsersWithEmail(store, email) == {u \in store : u.email = email}

\* C5: whatever the interleaving of the calls of
\* _create_and_associate_reana_user, when a call for an email ends (it
\* returns a user, or its commit is rolled back) the store holds exactly
\* one user with that email, and at no time two users share an email.
C5_OneUserPerEmail ==
    /\ \A e \in EmailPool : Cardinality(UsersWithEmail(db, e)) <= 1
    /\ (last.op = "foc" /\ ~SessionRefused(last)) =>
           Cardinality(UsersWithEmail(db, last.email)) = 1

\* a call found no user with the email, and its commit was rolled back
\* because a concurrent call had created that user in between
C5_Witness ==
    /\ last.op = "foc"
    /\ last.info = "absent"
    /\ last.out = CONSTRAINT_VIOLATION
    /\ Cardinality(UsersWithEmail(db, last.email)) = 1

\* C7: get_user_from_token leaves the store as it was and returns nothing
\* but the user whose access token is the one given; on a session that
\* serves the query it returns that user for the token of a user of the
\* store, and raises ValueError('Token not valid.'), returning no user, for
\* a token of no user.
C7_ResolveExact ==
    last.op = "resolve" =>
        LET owners == {u \in last.pre : u.access_token = last.tok}
        IN /\ db = last.pre
           /\ last.ret \subseteq owners
           /\ last.out = OK <=> last.ret # {}
           /\ ~SessionRefused(last) =>
                  /\ owners # {} => (last.out = OK /\ last.ret = owners
                                     /\ Cardinality(last.ret) = 1)
                  /\ owners = {} => last.out = TOKEN_NOT_VALID

\* the token of a user other than the admin, in a store of several users,
\* was resolved to that user
C7_Witness ==
    /\ last.op = "resolve"
    /\ last.out = OK
    /\ Cardinality(last.pre) > 1
    /\ \E u \in last.ret : u.id_ # ADMIN_USER_ID /\ u.access_token = last.tok

\* C6: from every store, two successive calls of
\* _create_and_associate_reana_user with one email both return a user, the
\* two users have the same id, the first call adds at most one record and
\* removes none, and the second call leaves the store as the first left it.
C6_FindOrCreateIdempotent ==
    idem.pc = "done" =>
        /\ idem.r1.out = OK
        /\ idem.r2.out = OK
        /\ {u.id_ : u \in idem.r1.ret} = {u.id_ : u \in idem.r2.ret}
        /\ Cardinality(idem.r1.ret) = 1
        /\ idem.db0 \subseteq idem.db1
        /\ Cardinality(idem.db1 \ idem.db0) <= 1
        /\ db = idem.db1

\* the first call created the user and the second call has returned
C6_Witness ==
    /\ idem.pc = "done"
    /\ idem.db1 # idem.db0
    /\ idem.r2.out = OK
    /\ idem.r2.ret = idem.r1.ret

\* C8: the file that _export_users writes for a store, given to
\* _import_users on an empty store, leaves that store holding the
\* (id, email, access_token) triples of the exported store.
C8_RoundTrip ==
    (rt.pc = "done" /\ rt.target = "empty") => db = rt.src

(***************************************************************************)
(* Properties of create_analysis.                                          *)
(***************************************************************************)
\* C2: a create-analysis request calls the workflow controller's
\* create-workflow operation at most once; when that call fails (an error
\* answer, or no answer) the request ends with an error response whose
\* message is the message of the failure, having made that one call.
C2_AtMostOneDispatch ==
    /\ Len(an.sent) <= 1
    /\ (an.pc = "done" /\ Len(an.sent) >= 1 /\ an.down # "ok") =>
           /\ an.status >= 400
           /\ an.body = [message |-> DownMessage(an.down)]
           /\ Len(an.sent) = 1

\* a request whose one call to the controller got no answer has ended
C2_Witness ==
    /\ an.pc = "done"
    /\ an.down = "transport error"
    /\ Len(an.sent) = 1
    /\ an.status = 500

\* C3: a create-analysis request whose engine is not among
\* AVAILABLE_WORKFLOW_ENGINES makes no call to the workflow controller, and
\* ends with an error response saying 'Unknown workflow engine'.
C3_UnknownEngineNoDispatch ==
    (an.pc # "idle" /\ an.engine \notin an.allow) =>
        /\ Len(an.sent) = 0
        /\ an.pc \in {"check", "done"}
        /\ an.pc = "done" =>
               (an.status >= 400 /\ an.body = [message |-> "Unknown workflow engine"])

\* a request for yadage, complete in every other respect, has ended where
\* yadage is not among the engines available
C3_Witness ==
    /\ an.pc = "done"
    /\ an.engine = "yadage"
    /\ an.engine \notin an.allow
    /\ an.hasFile
    /\ an.json = "object"
    /\ \A i \in DOMAIN YadageFields : an.doc[YadageFields[i]] # Absent
    /\ an.down = "ok"
    /\ an.sent = <<>>

\* the request is for an available engine, with a document that parses
Readable(a) == a.engine \in a.allow /\ a.hasFile /\ a.json = "object"

\* the uploaded document lacks a field that yadage requires
LacksField(a) == \E i \in DOMAIN YadageFields : a.doc[YadageFields[i]] = Absent

\* C11: a request whose call to the controller succeeds is answered 200 with
\* the controller's result as the body; a request with a client-input error
\* (an engine not among the available ones, a required field missing from
\* the document) is answered 400 with a message; every other failure is
\* answered 500 with a message.
C11_HttpOutcome ==
    an.pc = "done" =>
        LET unknown == an.engine \notin an.allow
            malformed == Readable(an) /\ an.engine = "yadage" /\ LacksField(an)
            succeeded == Len(an.sent) = 1 /\ an.down = "ok"
        IN /\ succeeded => (an.status = 200 /\ an.body = Launched)
           /\ an.status = 200 => succeeded
           /\ (unknown \/ malformed) =>
                  (an.status = 400 /\ DOMAIN an.body = {"message"})
           /\ (~succeeded /\ ~unknown /\ ~malformed /\ an.hasFile) =>
                  (an.status = 500 /\ DOMAIN an.body = {"message"})

\* C12: for yadage and a document holding toplevel, workflow, nparallel and
\* preset_pars, the yadage_payload of the call to the controller has
\* exactly those four fields, each with the value uploaded (a further field
\* of the document is not forwarded), and the organization and user of the
\* call are those of the request.
C12_YadagePayloadExact ==
    \A i \in DOMAIN an.sent :
        /\ an.engine = "yadage"
        /\ DOMAIN an.sent[i].yadage_payload = Range(YadageFields)
        /\ \A f \in Range(YadageFields) :
               an.sent[i].yadage_payload[f] = an.doc[f] /\ an.doc[f] # Absent
        /\ an.sent[i].organization = an.organization
        /\ an.sent[i].user = an.user

\* a document with a field beyond the four, for an organization other than
\* the default one, has been dispatched and the request answered 200
C12_Witness ==
    /\ an.pc = "done"
    /\ an.status = 200
    /\ an.doc["inputs"] # Absent
    /\ an.doc["toplevel"] = <<"toplevel", "v2">>
    /\ an.organization = "atlas"
    /\ an.user = "u2"
    /\ Len(an.sent) = 1
    /\ an.sent[1].yadage_payload["toplevel"] = <<"toplevel", "v2">>

\* the message of the error that refuses an engine
UNKNOWN_ENGINE == "Unknown workflow engine"

\* C14: a request for an engine that is available but is not yadage ends
\* with the error that refuses the engine, having made no call to the
\* controller, and is never answered 200.
C14_UnmappedEngineRefused ==
    (an.pc = "done" /\ an.engine \in an.allow /\ an.engine # "yadage") =>
        /\ an.sent = <<>>
        /\ an.status # 200
        /\ an.body = [message |-> UNKNOWN_ENGINE]

\* C15: a request whose upload is missing, or whose document lacks one of
\* toplevel, workflow, nparallel and preset_pars, makes no call to the
\* controller.
C15_NoDispatchOnMalformed ==
    (an.pc # "idle" /\ (~an.hasFile \/ (an.engine = "yadage" /\ LacksField(an)))) =>
        an.sent = <<>>

\* a request for yadage whose document lacks only preset_pars, the last
\* field read, has ended with 400 and no call made
C15_Witness ==
    /\ an.pc = "done"
    /\ Readable(an)
    /\ an.engine = "yadage"
    /\ an.doc["preset_pars"] = Absent
    /\ \A f \in {"toplevel", "workflow", "nparallel"} : an.doc[f] # Absent
    /\ an.down = "ok"
    /\ an.status = 400
    /\ an.body = [message |-> "preset_pars"]
    /\ an.sent = <<>>

(***************************************************************************)
(* Properties of _get_reana_yaml_from_gitlab.                              *)
(***************************************************************************)
\* C9: for a push event the branch resolved is project.default_branch and
\* the commit is checkout_sha; for a merge_request event the branch is
\* object_attributes.source_branch and the commit is
\* object_attributes.last_commit.id; the branch, commit and repository path
\* returned are those resolved and project.path_with_namespace.
C9_WebhookContext ==
    /\ (wh.pc \in {"secret", "fetch", "parse", "done"} /\ wh.object_kind = "push") =>
           (wh.branch = wh.default_branch /\ wh.commit_sha = wh.checkout_sha)
    /\ (wh.pc \in {"secret", "fetch", "parse", "done"}
        /\ wh.object_kind = "merge_request") =>
           (wh.branch = wh.source_branch /\ wh.commit_sha = wh.last_commit_id)
    /\ (wh.pc = "done" /\ wh.out = OK) =>
           /\ wh.ret.returned
           /\ wh.ret.path = wh.path_with_namespace
           /\ wh.object_kind = "push" =>
                  (wh.ret.branch = wh.default_branch
                   /\ wh.ret.commit_sha = wh.checkout_sha)
           /\ wh.object_kind = "merge_request" =>
                  (wh.ret.branch = wh.source_branch
                   /\ wh.ret.commit_sha = wh.last_commit_id)

\* a merge request whose source branch and last commit differ from the
\* default branch and the checkout_sha has been resolved and returned
C9_Witness ==
    /\ wh.pc = "done"
    /\ wh.out = OK
    /\ wh.object_kind = "merge_request"
    /\ wh.source_branch # wh.default_branch
    /\ wh.last_commit_id # wh.checkout_sha
    /\ wh.ret.branch = wh.source_branch
    /\ wh.ret.commit_sha = wh.last_commit_id

\* the error that rejects an event for its kind
UNSUPPORTED_EVENT == "UnsupportedEventError"

\* C10: for an event whose object_kind is neither push nor merge_request
\* the call fails with the error that rejects the event kind, and returns
\* no specification and no context.
C10_UnsupportedEventRejected ==
    (wh.pc = "done" /\ wh.object_kind \notin {"push", "merge_request"}) =>
        /\ wh.out = UNSUPPORTED_EVENT
        /\ wh.ret = NoRet

\* the failure of the fetch of the file from GitLab
UPSTREAM_FETCH_ERRORS == {"ConnectionError", "UpstreamFetchError"}

\* C16: when the request for the raw file fails or is answered with a
\* status other than success, the call fails with the error of the fetch
\* and returns nothing: the body of such an answer is not parsed and
\* returned as the specification.
C16_FetchFailureRejected ==
    (wh.pc = "done" /\ Len(wh.fetched) > 0 /\ wh.http # "200") =>
        /\ wh.out \in UPSTREAM_FETCH_ERRORS
        /\ wh.ret = NoRet

\* C19: in a call for user_id the only secret read is gitlab_access_token
\* of the store of user_id, no secret of another owner is read, and the
\* access token of every request made to GitLab is the value read there.
C19_SecretIsolation ==
    /\ wh.pc # "idle" => wh.reads \subseteq {<<wh.user_id, "gitlab_access_token">>}
    /\ wh.pc \in {"fetch", "parse"} => wh.reads # {}
    /\ wh.pc # "idle" =>
           \A i \in DOMAIN wh.fetched :
               /\ wh.reads = {<<wh.user_id, "gitlab_access_token">>}
               /\ wh.fetched[i].access_token = wh.vault[wh.user_id]
               /\ wh.fetched[i].access_token # NoSecret

\* a call for the second owner, where both owners have stored different
\* tokens, has fetched the file with the second owner's token
C19_Witness ==
    /\ wh.pc = "done"
    /\ wh.out = OK
    /\ wh.user_id = "u2"
    /\ wh.vault["u1"] = "glpat-u1"
    /\ wh.vault["u2"] = "glpat-u2"
    /\ Len(wh.fetched) = 1
    /\ wh.fetched[1].access_token = "glpat-u2"
    /\ wh.reads = {<<"u2", "gitlab_access_token">>}

(***************************************************************************)
(* Further properties of the user store operations.                        *)
(***************************************************************************)
\* the token a create call asks the table to store, when the caller gave one
Duplicates(l) ==
    \E u \in l.pre : u.email = l.email \/ (l.utok # None /\ u.access_token = l.utok)

\* C13: a create with the admin's token whose email or token is that of a
\* user of the store fails with the constraint-violation error, and
\* whenever create fails so the store is as it was before the call; a
\* create that succeeds has added exactly one user, with the email given
\* and, when a token was given, that token; on a session that serves the
\* call a create whose email and token are new succeeds.
C13_CreateConflictOrOne ==
    (last.op = "create" /\ last.tok \in StoredAdminTokens(last.pre)) =>
        /\ Duplicates(last) => last.out = CONSTRAINT_VIOLATION
        /\ last.out # OK => (db = last.pre /\ last.ret = {})
        /\ last.out = OK =>
               /\ last.pre \subseteq db
               /\ db \ last.pre = last.ret
               /\ Cardinality(last.ret) = 1
               /\ \A u \in last.ret :
                      /\ u.email = last.email
                      /\ last.utok # None => u.access_token = last.utok
        /\ (~Duplicates(last) /\ ~SessionRefused(last)) => last.out = OK

\* a create that gave a token of its own has added a user with that token
\* to a store of several users
C13_Witness ==
    /\ last.op = "create"
    /\ last.out = OK
    /\ last.utok # None
    /\ Cardinality(last.pre) > 1
    /\ \E u \in db \ last.pre : u.access_token = last.utok /\ u.email = last.email

\* C17: in every state reached by creates, find-or-creates and imports, in
\* any interleaving, with tokens generated or given, no two records of the
\* store have the same access token.
C17_TokenUnique ==
    \A u \in db : \A v \in db : u.access_token = v.access_token => u = v

\* a create that gave the token of a user of the store, with an email of
\* no user, has been refused
C17_Witness ==
    /\ last.op = "create"
    /\ last.info = "given"
    /\ last.tok \in StoredAdminTokens(last.pre)
    /\ \E u \in last.pre : u.access_token = last.utok /\ u.id_ # ADMIN_USER_ID
    /\ ~\E u \in last.pre : u.email = last.email
    /\ last.out = CONSTRAINT_VIOLATION
    /\ db = last.pre

ReadOnlyOps == {"resolve", "list", "export"}

\* C18: every record of the store is in the store, as it was, after every
\* step; a step that ends a resolve, a list or an export leaves the store
\* exactly as it was.
C18_RecordsKept ==
    [][/\ db \subseteq db'
       /\ (last' # last /\ last'.op \in ReadOnlyOps) => db' = db]_vars

\* an import has added its rows to a store of several users, all of them
\* still there
C18_Witness ==
    /\ last.op = "import"
    /\ last.out = OK
    /\ Cardinality(last.pre) > 1
    /\ last.pre \subseteq db
    /\ db # last.pre

\* C20: whatever call failed before it on its session (an import refused
\* for a constraint violation, an operation refused for its admin token),
\* a create with the admin's token and an email and a token of no user of
\* the store succeeds and adds that one user, and nothing else: no row of
\* a failed import comes with it.
C20_SessionNotPoisoned ==
    (/\ last.op = "create"
     /\ last.tok \in StoredAdminTokens(last.pre)
     /\ ~Duplicates(last)) =>
        /\ last.out = OK
        /\ Cardinality(last.ret) = 1
        /\ db = last.pre \cup last.ret
        /\ \A u \in last.ret : u.email = last.email

====
